---------------------------- MODULE Spec2Model ----------------------------
(***************************************************************************)
(* Model of server.js: the POST /update-protection handler, the per-key    *)
(* polling lock withLock, and updateVariantPrice.                          *)
(*                                                                         *)
(* JavaScript numbers are IEEE-754 doubles.  The handler multiplies, adds  *)
(* and formats them (toFixed), so doubles are modelled bit-exactly: a      *)
(* positive finite double is mant * 2^exp with 2^52 <= mant < 2^53.  TLC   *)
(* integers are 32 bits wide, so mantissas and intermediate products are   *)
(* fixed-width little-endian vectors of limbs.                             *)
(***************************************************************************)
EXTENDS Integers, Sequences, FiniteSets

---------------------------------------------------------------------------
(* Naturals below 2^126 as nine little-endian limbs in base 2^14.  Every   *)
(* intermediate value stays below 2^31.                                    *)
(*                                                                         *)
(* Only({e(x) : x \in {a}}) is e(a) with a evaluated once: the operators   *)
(* below bind their arguments this way before using them repeatedly.       *)

Only(S) == CHOOSE v \in S : TRUE

LimbBits == 2 * 7
Base == 2^LimbBits
Width == 1..9

Limb(a, i) == IF i \in Width THEN a[i] ELSE 0

BZero == <<0, 0, 0, 0, 0, 0, 0, 0, 0>>
BOne  == <<1, 0, 0, 0, 0, 0, 0, 0, 0>>

(* n < 2^31 *)
BFromInt(n) == <<n % Base, (n \div Base) % Base, n \div (Base * Base), 0, 0, 0, 0, 0, 0>>

(* a < 2^31 *)
BToInt(a0) == Only({ a[1] + Base * a[2] + Base * Base * a[3] : a \in {a0} })

(* Carry propagation over limb sums that may exceed the base *)
Carry(v0) ==
    Only({ LET s1 == v[1]
               s2 == v[2] + s1 \div Base
               s3 == v[3] + s2 \div Base
               s4 == v[4] + s3 \div Base
               s5 == v[5] + s4 \div Base
               s6 == v[6] + s5 \div Base
               s7 == v[7] + s6 \div Base
               s8 == v[8] + s7 \div Base
               s9 == v[9] + s8 \div Base
           IN  <<s1 % Base, s2 % Base, s3 % Base, s4 % Base, s5 % Base, s6 % Base, s7 % Base, s8 % Base, s9 % Base>>
           : v \in {v0} })

BAdd(a0, b0) == Only({ Carry([i \in Width |-> a[i] + b[i]]) : a \in {a0}, b \in {b0} })

(* a * k, 0 <= k <= Base *)
BMulSmall(a0, k) == Only({ Carry([i \in Width |-> a[i] * k]) : a \in {a0} })

(* a * b for a, b < 2^56 *)
BMul(a0, b0) ==
    Only({ Carry([i \in Width |-> a[1] * Limb(b, i) + a[2] * Limb(b, i - 1)
                                  + a[3] * Limb(b, i - 2) + a[4] * Limb(b, i - 3)])
           : a \in {a0}, b \in {b0} })

(* Long division from the top limb down: q = a \div k, r = a % k, 0 < k <= Base *)
BDivSmall(a0, k) ==
    Only({ LET c9 == a[9]
               c8 == (c9 % k) * Base + a[8]
               c7 == (c8 % k) * Base + a[7]
               c6 == (c7 % k) * Base + a[6]
               c5 == (c6 % k) * Base + a[5]
               c4 == (c5 % k) * Base + a[4]
               c3 == (c4 % k) * Base + a[3]
               c2 == (c3 % k) * Base + a[2]
               c1 == (c2 % k) * Base + a[1]
           IN  [q |-> <<c1 \div k, c2 \div k, c3 \div k, c4 \div k, c5 \div k, c6 \div k, c7 \div k, c8 \div k, c9 \div k>>, r |-> c1 % k]
           : a \in {a0} })

(* -1, 0, 1 as a < b, a = b, a > b *)
BCmp(a0, b0) ==
    Only({ Only({ IF diff = {} THEN 0
                  ELSE Only({ IF a[top] < b[top] THEN -1 ELSE 1
                              : top \in {i \in diff : \A j \in diff : j <= i} })
                  : diff \in {{i \in Width : a[i] # b[i]}} })
           : a \in {a0}, b \in {b0} })

(* a * 2^k *)
BShl(a0, k) ==
    Only({ Carry([i \in Width |-> Limb(a, i - q) * 2^r])
           : a \in {a0}, q \in {k \div LimbBits}, r \in {k % LimbBits} })

(* a \div 2^k *)
BShr(a0, k) ==
    Only({ <<Limb(a, 1 + q) \div 2^r + (Limb(a, 2 + q) % 2^r) * 2^(LimbBits - r),
             Limb(a, 2 + q) \div 2^r + (Limb(a, 3 + q) % 2^r) * 2^(LimbBits - r),
             Limb(a, 3 + q) \div 2^r + (Limb(a, 4 + q) % 2^r) * 2^(LimbBits - r),
             Limb(a, 4 + q) \div 2^r + (Limb(a, 5 + q) % 2^r) * 2^(LimbBits - r),
             Limb(a, 5 + q) \div 2^r + (Limb(a, 6 + q) % 2^r) * 2^(LimbBits - r),
             Limb(a, 6 + q) \div 2^r + (Limb(a, 7 + q) % 2^r) * 2^(LimbBits - r),
             Limb(a, 7 + q) \div 2^r + (Limb(a, 8 + q) % 2^r) * 2^(LimbBits - r),
             Limb(a, 8 + q) \div 2^r + (Limb(a, 9 + q) % 2^r) * 2^(LimbBits - r),
             Limb(a, 9 + q) \div 2^r>>
           : a \in {a0}, q \in {k \div LimbBits}, r \in {k % LimbBits} })

(* The number of bits of a limb *)
IntBitLen(n) == CHOOSE k \in 0..LimbBits : n < 2^k /\ (k = 0 \/ 2^(k - 1) <= n)

BBitLen(a0) ==
    Only({ Only({ IF nz = {} THEN 0
                  ELSE Only({ LimbBits * (top - 1) + IntBitLen(a[top])
                              : top \in {i \in nz : \A j \in nz : j <= i} })
                  : nz \in {{i \in Width : a[i] # 0}} })
           : a \in {a0} })

BIsOdd(a) == a[1] % 2 = 1

(* a / 2^k rounded to the nearest integer, ties to even (IEEE-754 default) *)
BShrRoundEven(a0, k) ==
    IF k = 0 THEN a0
    ELSE Only({ IF BIsOdd(q2) /\ (BShl(q2, k - 1) # a \/ BIsOdd(q)) THEN BAdd(q, BOne) ELSE q
                : a \in {a0}, q \in {BShr(a0, k)}, q2 \in {BShr(a0, k - 1)} })

---------------------------------------------------------------------------
(* IEEE-754 doubles.  k is "fin" (mant * 2^exp, 2^52 <= mant < 2^53),      *)
(* "zero", "inf" or "nan"; neg is the sign bit.                            *)

MantBits == 52 + 1

DZero(neg) == [k |-> "zero", neg |-> neg, m |-> BZero, e |-> 0]
DInf(neg)  == [k |-> "inf",  neg |-> neg, m |-> BZero, e |-> 0]
DNaN       == [k |-> "nan",  neg |-> FALSE, m |-> BZero, e |-> 0]
DFin(neg, m, e) == [k |-> "fin", neg |-> neg, m |-> m, e |-> e]

(* The double nearest to the positive natural s * 2^e0 (round to nearest, ties to even) *)
DRound(neg, s0, e0) ==
    Only({ IF len <= MantBits
           THEN DFin(neg, BShl(s, MantBits - len), e0 - (MantBits - len))
           ELSE Only({ IF BBitLen(r) > MantBits
                       THEN DFin(neg, BShr(r, 1), e0 + (len - MantBits) + 1)
                       ELSE DFin(neg, r, e0 + (len - MantBits))
                       : r \in {BShrRoundEven(s, len - MantBits)} })
           : s \in {s0}, len \in {BBitLen(s0)} })

(* Largest k with d * 2^k <= n, for naturals n, d > 0 *)
FloorLog2Ratio(n0, d0) ==
    Only({ IF g >= 0
           THEN (IF BCmp(BShl(d, g), n) <= 0 THEN g ELSE g - 1)
           ELSE (IF BCmp(d, BShl(n, -g)) <= 0 THEN g ELSE g - 1)
           : n \in {n0}, d \in {d0}, g \in {BBitLen(n0) - BBitLen(d0)} })

(* The double nearest to n / d for a natural n > 0 and 0 < d <= Base/2:    *)
(* how a decimal literal with two fraction digits (d = 100) is read.       *)
DNearestRatio(neg, n0, d) ==
    Only({ Only({ DRound(neg,
                         IF 2 * dv.r > d \/ (2 * dv.r = d /\ BIsOdd(dv.q))
                         THEN BAdd(dv.q, BOne) ELSE dv.q,
                         -sh)
                  : dv \in {BDivSmall(BShl(n0, sh), d)} })
           : sh \in {(MantBits - 1) - FloorLog2Ratio(n0, BFromInt(d))} })

(* Number("d.dd") / a JSON or source literal given in hundredths *)
DFromCents(c) ==
    IF c = 0 THEN DZero(FALSE)
    ELSE IF c < 0 THEN DNearestRatio(TRUE, BFromInt(-c), 100)
    ELSE DNearestRatio(FALSE, BFromInt(c), 100)

(* a * b *)
DMul(a0, b0) ==
    Only({ IF a.k = "nan" \/ b.k = "nan" THEN DNaN
           ELSE IF a.k = "inf" \/ b.k = "inf"
                THEN (IF a.k = "zero" \/ b.k = "zero" THEN DNaN ELSE DInf(a.neg # b.neg))
           ELSE IF a.k = "zero" \/ b.k = "zero" THEN DZero(a.neg # b.neg)
           ELSE DRound(a.neg # b.neg, BMul(a.m, b.m), a.e + b.e)
           : a \in {a0}, b \in {b0} })

(* a + b for operands of equal sign (the handler only adds non-negative values) *)
DAdd(a0, b0) ==
    Only({ IF a.k = "nan" \/ b.k = "nan" THEN DNaN
           ELSE IF a.k = "inf" THEN a
           ELSE IF b.k = "inf" THEN b
           ELSE IF a.k = "zero" THEN b
           ELSE IF b.k = "zero" THEN a
           ELSE IF a.e - b.e > MantBits + 1 THEN a
           ELSE IF b.e - a.e > MantBits + 1 THEN b
           ELSE Only({ DRound(a.neg, BAdd(BShl(a.m, a.e - e0), BShl(b.m, b.e - e0)), e0)
                       : e0 \in {IF a.e < b.e THEN a.e ELSE b.e} })
           : a \in {a0}, b \in {b0} })

(* |x| < |y| for finite non-zero x, y *)
MagLess(x, y) == x.e < y.e \/ (x.e = y.e /\ BCmp(x.m, y.m) < 0)

(* a < b; false when either is NaN *)
DLess(a0, b0) ==
    \E a \in {a0}, b \in {b0} :
        IF a.k = "nan" \/ b.k = "nan" THEN FALSE
        ELSE IF a.k = "zero" /\ b.k = "zero" THEN FALSE
        ELSE IF a.k = "zero" THEN ~b.neg
        ELSE IF b.k = "zero" THEN a.neg
        ELSE IF a.neg # b.neg THEN a.neg
        ELSE IF a.k = "inf" /\ b.k = "inf" THEN FALSE
        ELSE IF a.k = "inf" THEN a.neg
        ELSE IF b.k = "inf" THEN ~b.neg
        ELSE IF a.neg THEN MagLess(b, a) ELSE MagLess(a, b)

(* a == b *)
DEq(a0, b0) ==
    \E a \in {a0}, b \in {b0} :
        IF a.k = "nan" \/ b.k = "nan" THEN FALSE
        ELSE IF a.k = "zero" /\ b.k = "zero" THEN TRUE
        ELSE a = b

(* a <= b *)
DLessEq(a0, b0) == \E a \in {a0}, b \in {b0} : DLess(a, b) \/ DEq(a, b)

(* Number.prototype.toFixed(2): the integer n with n/100 - x closest to    *)
(* zero, the larger n on a tie; as a decimal string of hundredths.  (An    *)
(* |x| >= 1e21 is printed in exponent form instead; amounts in hundredths  *)
(* below 2^31 never get there.)                                            *)
FixedStr(kind, neg, cents) == [k |-> kind, neg |-> neg, cents |-> cents]

ToFixed2(x0) ==
    Only({ IF x.k = "nan" THEN FixedStr("NaN", FALSE, 0)
           ELSE IF x.k = "inf" THEN FixedStr("Infinity", x.neg, 0)
           ELSE IF x.k = "zero" THEN FixedStr("dec", FALSE, 0)
           ELSE IF x.e >= 0
                THEN FixedStr("dec", x.neg, BToInt(BShl(BMulSmall(x.m, 100), x.e)))
                ELSE FixedStr("dec", x.neg,
                              BToInt(BShr(BAdd(BMulSmall(x.m, 200), BShl(BOne, -x.e)), 1 - x.e)))
           : x \in {x0} })

(* Number(str) of a string toFixed produced *)
NumberOfFixed(s0) ==
    Only({ IF s.k = "NaN" THEN DNaN
           ELSE IF s.k = "Infinity" THEN DInf(s.neg)
           ELSE IF s.neg THEN DFromCents(-s.cents) ELSE DFromCents(s.cents)
           : s \in {s0} })

---------------------------------------------------------------------------
(* JavaScript values as they leave JSON.parse.  A number is written as a   *)
(* literal: hundredths in n (s = ""), the overflowing literal 1e999        *)
(* (s = "1e999", which JSON.parse reads as Infinity), or an integer too    *)
(* wide for n given by its digits in s (only variant ids are that wide).   *)

Undefined  == [t |-> "undefined", s |-> "", n |-> 0]
Str(x)     == [t |-> "string",    s |-> x,  n |-> 0]
Bool(b)    == [t |-> "boolean",   s |-> "", n |-> IF b THEN 1 ELSE 0]
Cents(c)   == [t |-> "number",    s |-> "", n |-> c]
Huge       == [t |-> "number",    s |-> "1e999", n |-> 0]
IntLit(ds) == [t |-> "number",    s |-> ds, n |-> 1]

TypeOf(v) == v.t

(* The double a numeric literal denotes (amounts only) *)
NumberValue(v) == IF v.s = "1e999" THEN DInf(FALSE) ELSE DFromCents(v.n)

(* ToBoolean *)
Truthy(v) ==
    CASE v.t = "undefined" -> FALSE
      [] v.t = "boolean"   -> v.n = 1
      [] v.t = "string"    -> v.s # ""
      [] v.t = "number"    -> v.s # "" \/ v.n # 0

(* ToString, as a template literal applies it *)
ToString(v) ==
    CASE v.t = "string"    -> v.s
      [] v.t = "undefined" -> "undefined"
      [] v.t = "boolean"   -> IF v.n = 1 THEN "true" ELSE "false"
      [] v.t = "number"    -> IF v.s # "" THEN (IF v.s = "1e999" THEN "Infinity" ELSE v.s)
                              ELSE "amount"

(* a || b *)
Or(a, b) == IF Truthy(a) THEN a ELSE b

isNaN(d) == d.k = "nan"

---------------------------------------------------------------------------
(* CONFIG *)

PROTECTION_VARIANT_DYNAMIC == Str("45626932789401")
(* A threshold of 50 USD *)
HalfThreshold              == DFromCents(5000)
PROTECTION_THRESHOLD       == DFromCents(10000)
PROTECTION_PERCENT         == DFromCents(3)
PROTECTION_BASE_INCREMENT  == DFromCents(1)

---------------------------------------------------------------------------
(* The decisions of the /update-protection handler, up to its withLock     *)
(* call.                                                                   *)

Reject(msg) ==
    [kind |-> "reject", error |-> msg, path |-> "none",
     key |-> Undefined, price |-> DNaN]

Call(path, key, price) ==
    [kind |-> "call", error |-> "", path |-> path, key |-> key, price |-> price]

InvalidNewPrice(new_price) ==
    \/ TypeOf(new_price) # "number"
    \/ isNaN(NumberValue(new_price))
    \/ DLessEq(NumberValue(new_price), DZero(FALSE))

(* The subtotal test without its sign check *)
InvalidSubtotalNoSign(subtotal) ==
    \/ TypeOf(subtotal) # "number"
    \/ isNaN(NumberValue(subtotal))

InvalidSubtotal(subtotal) ==
    \/ TypeOf(subtotal) # "number"
    \/ isNaN(NumberValue(subtotal))
    \/ DLess(NumberValue(subtotal), DZero(FALSE))

(* The reset branch with the configured variant hard-wired *)
AlwaysDefaultVariant(variant_id) == PROTECTION_VARIANT_DYNAMIC

ResetVariant(variant_id) == Or(variant_id, PROTECTION_VARIANT_DYNAMIC)

fixedPrice == DFromCents(217)

feeRaw(subtotal) == DMul(subtotal, PROTECTION_PERCENT)

targetPrice(subtotal) ==
    NumberOfFixed(ToFixed2(DAdd(feeRaw(subtotal), PROTECTION_BASE_INCREMENT)))

(* A handler that validates the subtotal before it looks at reset *)
UpdateProtectionSubtotalFirst(b) ==
    IF InvalidSubtotal(b.subtotal)
    THEN Reject("subtotal must be a positive number (USD)")
    ELSE IF b.reset = Bool(TRUE)
         THEN IF InvalidNewPrice(b.new_price)
              THEN Reject("Invalid new_price for reset")
              ELSE Call("reset", ResetVariant(b.variant_id), NumberValue(b.new_price))
         ELSE IF DLess(NumberValue(b.subtotal), PROTECTION_THRESHOLD)
              THEN Call("fixed", PROTECTION_VARIANT_DYNAMIC, fixedPrice)
              ELSE Call("dynamic", PROTECTION_VARIANT_DYNAMIC,
                        targetPrice(NumberValue(b.subtotal)))

UpdateProtection(b) ==
    IF b.reset = Bool(TRUE)
    THEN IF InvalidNewPrice(b.new_price)
         THEN Reject("Invalid new_price for reset")
         ELSE Call("reset", ResetVariant(b.variant_id), NumberValue(b.new_price))
    ELSE IF InvalidSubtotal(b.subtotal)
         THEN Reject("subtotal must be a positive number (USD)")
         ELSE IF DLess(NumberValue(b.subtotal), PROTECTION_THRESHOLD)
              THEN Call("fixed", PROTECTION_VARIANT_DYNAMIC, fixedPrice)
              ELSE Call("dynamic", PROTECTION_VARIANT_DYNAMIC,
                        targetPrice(NumberValue(b.subtotal)))

(* updateVariantPrice: the PUT it sends.  variant is the id in the URL,    *)
(* price the body's price string.                                          *)
PutRequest(variantId, newPrice) ==
    [variant |-> ToString(variantId), price |-> ToFixed2(newPrice)]

---------------------------------------------------------------------------
(* Request bodies *)

OTHER_VARIANT == "45626932789402"

MakeBody(subtotal, reset, new_price, variant_id) ==
    [subtotal |-> subtotal, reset |-> reset, new_price |-> new_price,
     variant_id |-> variant_id]

(* Concurrent load: a below-threshold and an above-threshold calculation,  *)
(* resets of the default variant (id sent as a JSON number) and of another *)
(* variant, and a request validation rejects.                              *)
LoadBodies ==
    { MakeBody(Cents(5000), Undefined, Undefined, Undefined),
      MakeBody(Cents(15000), Bool(FALSE), Undefined, Undefined),
      MakeBody(Undefined, Bool(TRUE), Cents(999), IntLit("45626932789401")),
      MakeBody(Undefined, Bool(TRUE), Cents(999), Str(OTHER_VARIANT)),
      MakeBody(Cents(-100), Undefined, Undefined, Undefined) }

Subtotals ==
    {Undefined, Str("abc"), Cents(-100), Cents(0), Cents(5000), Cents(9999),
     Cents(10000), Cents(10050), Cents(15000), Cents(100000), Huge}
Resets == {Undefined, Bool(TRUE), Bool(FALSE)}
NewPrices ==
    {Undefined, Str("abc"), Cents(0), Cents(-500), Cents(250), Cents(999), Huge}
VariantIdValues ==
    {Undefined, Str(""), Str(OTHER_VARIANT), IntLit("45626932789401")}

PolicyBodies ==
    { MakeBody(st, rs, np, vi) :
        st \in Subtotals, rs \in Resets, np \in NewPrices, vi \in VariantIdValues }

---------------------------------------------------------------------------
(* State.  One handler invocation per request; requests are numbered in    *)
(* the order they arrive.  The Map locks and the remote shop are shared.   *)

NumReqs == 3
Reqs == 1..NumReqs

VARIABLES
    locks,    \* the keys of the Map locks (every stored value is true)
    pc,       \* where each request's handler is suspended
    body,     \* req.body
    call,     \* the arguments of the request's withLock / updateVariantPrice call
    resp,     \* the HTTP response sent
    inflight, \* the PUT the request's updateVariantPrice has sent and awaits
    sent,     \* the number of PUTs the request has issued
    reply,    \* what the remote answered to the request's PUT
    lastSuccess, \* variant id -> price the remote stored for the latest request answered 200
    remote    \* the shop: variant id -> stored price

vars == <<locks, pc, body, call, resp, inflight, sent, reply, lastSuccess, remote>>

NoBody == [subtotal |-> Undefined, reset |-> Undefined,
           new_price |-> Undefined, variant_id |-> Undefined]

NoPrice == FixedStr("none", FALSE, 0)
NoVariant == [id |-> "", price |-> NoPrice]
NoError == [text |-> "", status |-> 0]
NoPut == [variant |-> "", price |-> NoPrice]
NoReply == [o |-> "none", status |-> 0]
NoResp == [status |-> 0, success |-> FALSE, variant_id |-> "", new_price |-> NoPrice,
           error |-> NoError]

VariantIds == {ToString(PROTECTION_VARIANT_DYNAMIC), OTHER_VARIANT}

Init ==
    /\ locks = {}
    /\ pc = [r \in Reqs |-> "idle"]
    /\ body = [r \in Reqs |-> NoBody]
    /\ call = [r \in Reqs |-> Reject("")]
    /\ resp = [r \in Reqs |-> NoResp]
    /\ inflight = [r \in Reqs |-> NoPut]
    /\ sent = [r \in Reqs |-> 0]
    /\ reply = [r \in Reqs |-> NoReply]
    /\ lastSuccess = [v \in VariantIds |-> NoPrice]
    /\ remote = [v \in VariantIds |-> NoPrice]

---------------------------------------------------------------------------
(* withLock *)

(* A single process-wide lock: the test looks at the whole Map *)
AnyBusy(l, key) == l # {}

(* A lock that also makes an arrival queue behind the requests already   *)
(* sleeping on its key                                                     *)
BusyOrQueued(l, key) ==
    key \in l \/ \E q \in Reqs : pc[q] = "waiting" /\ call[q].key = key

(* locks.get(key) *)
Busy(l, key) == key \in l

(* A withLock without its finally block *)
FinallyMissing(l, key) == l

(* finally { locks.delete(key) } *)
Finally(l, key) == l \ {key}

(* A withLock without its while loop: the key is set whether or not it is *)
(* already there                                                           *)
WithLockNoWait(r, key, price) ==
    /\ locks' = locks \cup {key}
    /\ pc' = [pc EXCEPT ![r] = "calling"]
    /\ inflight' = [inflight EXCEPT ![r] = PutRequest(key, price)]
    /\ sent' = [sent EXCEPT ![r] = @ + 1]

(* The loop test and what follows it without an intervening await: either  *)
(* the 50ms sleep starts, or the key is set and fn() runs up to its fetch.  *)
WithLockTry(r, key, price) ==
    IF Busy(locks, key)
    THEN /\ pc' = [pc EXCEPT ![r] = "waiting"]
         /\ UNCHANGED <<locks, inflight, sent>>
    ELSE /\ locks' = locks \cup {key}
         /\ pc' = [pc EXCEPT ![r] = "calling"]
         /\ inflight' = [inflight EXCEPT ![r] = PutRequest(key, price)]
         /\ sent' = [sent EXCEPT ![r] = @ + 1]

---------------------------------------------------------------------------
(* The handler *)

BadRequest(msg) ==
    [status |-> 400, success |-> FALSE, variant_id |-> "", new_price |-> NoPrice,
     error |-> [text |-> msg, status |-> 0]]

ServerError(err) ==
    [status |-> 500, success |-> FALSE, variant_id |-> "", new_price |-> NoPrice,
     error |-> [text |-> IF err.text # "" THEN err.text ELSE "unknown error",
                status |-> err.status]]

Success(updatedVariant) ==
    [status |-> 200, success |-> TRUE, variant_id |-> updatedVariant.id,
     new_price |-> updatedVariant.price, error |-> NoError]

(* A handler whose whole body sits inside the lock's try/finally, so that *)
(* a rejection deletes the default variant's key                           *)
ReceiveReleasing(r, bodies) ==
    /\ pc[r] = "idle"
    /\ \A q \in Reqs : q < r => pc[q] # "idle"
    /\ \E b \in bodies : \E d \in {UpdateProtection(b)} :
          /\ body' = [body EXCEPT ![r] = b]
          /\ IF d.kind = "reject"
             THEN /\ resp' = [resp EXCEPT ![r] = BadRequest(d.error)]
                  /\ pc' = [pc EXCEPT ![r] = "done"]
                  /\ locks' = locks \ {PROTECTION_VARIANT_DYNAMIC}
                  /\ UNCHANGED <<call, inflight, sent, reply, lastSuccess, remote>>
             ELSE /\ call' = [call EXCEPT ![r] = d]
                  /\ WithLockTry(r, d.key, d.price)
                  /\ UNCHANGED <<resp, reply, lastSuccess, remote>>

(* A request with one of the given bodies arrives: the handler runs to its *)
(* first suspension.                                                       *)
Receive(r, bodies) ==
    /\ pc[r] = "idle"
    /\ \A q \in Reqs : q < r => pc[q] # "idle"
    /\ \E b \in bodies : \E d \in {UpdateProtection(b)} :
          /\ body' = [body EXCEPT ![r] = b]
          /\ IF d.kind = "reject"
             THEN /\ resp' = [resp EXCEPT ![r] = BadRequest(d.error)]
                  /\ pc' = [pc EXCEPT ![r] = "done"]
                  /\ UNCHANGED <<locks, call, inflight, sent, reply, lastSuccess, remote>>
             ELSE /\ call' = [call EXCEPT ![r] = d]
                  /\ WithLockTry(r, d.key, d.price)
                  /\ UNCHANGED <<resp, reply, lastSuccess, remote>>

(* The 50ms timer of a waiting request fires: the loop test runs again *)
Wake(r) ==
    /\ pc[r] = "waiting"
    /\ WithLockTry(r, call[r].key, call[r].price)
    /\ UNCHANGED <<body, call, resp, reply, lastSuccess, remote>>

---------------------------------------------------------------------------
(* updateVariantPrice settles.  What the remote answers is the             *)
(* environment's choice.                                                   *)

ERROR_STATUSES == {404, 422}

(* An error thrown without the response's status *)
RemoteErrorNoStatus(status) ==
    [kind |-> "throw", variant |-> NoVariant,
     error |-> [text |-> "Shopify Admin API error", status |-> 0]]

RemoteError(status) ==
    [kind |-> "throw", variant |-> NoVariant,
     error |-> [text |-> "Shopify Admin API error", status |-> status]]

NetworkError ==
    [kind |-> "throw", variant |-> NoVariant,
     error |-> [text |-> "fetch failed", status |-> 0]]

(* The remote's own rendering of a price it has stored, when it does not  *)
(* keep the string it was sent                                             *)
Canonical(price) == [price EXCEPT !.k = "canonical"]

(* The variant as the remote holds it once it has applied the PUT and      *)
(* answered o                                                              *)
StoredVariant(put, o) ==
    [id |-> put.variant,
     price |-> IF o.o = "okCanonical" THEN Canonical(put.price) ELSE put.price]

Returned(variant) ==
    [kind |-> "variant", variant |-> variant, error |-> NoError]

ReturnedUndefined == [kind |-> "undefined", variant |-> NoVariant, error |-> NoError]

TypeErrorOnId == [text |-> "Cannot read properties of undefined (reading 'id')", status |-> 0]

Outcomes ==
    {[o |-> "ok", status |-> 200], [o |-> "okCanonical", status |-> 200],
     [o |-> "noVariant", status |-> 200],
     [o |-> "throw", status |-> 0]}
    \cup {[o |-> "status", status |-> st] : st \in ERROR_STATUSES}

(* An updateVariantPrice that returns the variant of its own request body *)
updateVariantPriceEcho(put, o) ==
    IF o.o \in {"ok", "okCanonical"}
    THEN Returned([id |-> put.variant, price |-> put.price])
    ELSE IF o.o = "noVariant" THEN ReturnedUndefined
    ELSE IF o.o = "throw" THEN NetworkError
    ELSE RemoteError(o.status)

(* What updateVariantPrice returns or throws for the remote's answer o *)
updateVariantPrice(put, o) ==
    IF o.o \in {"ok", "okCanonical"} THEN Returned(StoredVariant(put, o))
    ELSE IF o.o = "noVariant" THEN ReturnedUndefined
    ELSE IF o.o = "throw" THEN NetworkError
    ELSE RemoteError(o.status)

(* The handler after await withLock(...): res.json(...) or the catch block *)
Respond(result) ==
    IF result.kind = "variant" THEN Success(result.variant)
    ELSE IF result.kind = "undefined" THEN ServerError(TypeErrorOnId)
    ELSE ServerError(result.error)

(* A handler that sends its PUT again when the remote call fails *)
SettleRetrying(r, o) ==
    /\ pc[r] = "calling"
    /\ IF o.o \in {"status", "throw"}
       THEN /\ sent' = [sent EXCEPT ![r] = @ + 1]
            /\ reply' = [reply EXCEPT ![r] = o]
            /\ UNCHANGED <<locks, pc, body, call, resp, inflight, lastSuccess, remote>>
       ELSE /\ remote' = [remote EXCEPT ![inflight[r].variant] =
                                            StoredVariant(inflight[r], o).price]
            /\ lastSuccess' = IF o.o \in {"ok", "okCanonical"}
                              THEN [lastSuccess EXCEPT ![inflight[r].variant] =
                                                    StoredVariant(inflight[r], o).price]
                              ELSE lastSuccess
            /\ locks' = locks \ {call[r].key}
            /\ resp' = [resp EXCEPT ![r] = Respond(updateVariantPrice(inflight[r], o))]
            /\ inflight' = [inflight EXCEPT ![r] = NoPut]
            /\ reply' = [reply EXCEPT ![r] = o]
            /\ pc' = [pc EXCEPT ![r] = "done"]
            /\ UNCHANGED <<body, call, sent>>

(* The remote answers request r's PUT.  The promise chain that follows      *)
(* (updateVariantPrice returns or throws, withLock's finally, the handler's *)
(* continuation or catch) runs as consecutive microtasks, before any timer  *)
(* or arrival is served.                                                    *)
Settle(r, o) ==
    /\ pc[r] = "calling"
    /\ remote' = IF o.status = 200
                 THEN [remote EXCEPT ![inflight[r].variant] =
                                         StoredVariant(inflight[r], o).price]
                 ELSE remote
    /\ lastSuccess' = IF o.o \in {"ok", "okCanonical"}
                      THEN [lastSuccess EXCEPT ![inflight[r].variant] =
                                              StoredVariant(inflight[r], o).price]
                      ELSE lastSuccess
    /\ locks' = Finally(locks, call[r].key)
    /\ resp' = [resp EXCEPT ![r] = Respond(updateVariantPrice(inflight[r], o))]
    /\ inflight' = [inflight EXCEPT ![r] = NoPut]
    /\ reply' = [reply EXCEPT ![r] = o]
    /\ pc' = [pc EXCEPT ![r] = "done"]
    /\ UNCHANGED <<body, call, sent>>

---------------------------------------------------------------------------
(* Specifications *)

Next ==
    \E r \in Reqs :
        \/ Receive(r, LoadBodies)
        \/ Wake(r)
        \/ \E o \in Outcomes : Settle(r, o)

Spec == Init /\ [][Next]_vars

(* Every 50ms timer that is set fires, and every PUT is answered or fails. *)
(* Arrivals are not forced: at most NumReqs requests arrive.               *)
Fairness ==
    \A r \in Reqs :
        /\ WF_vars(Wake(r))
        /\ WF_vars(\E o \in Outcomes : Settle(r, o))

(* Contention for one key: two calculation requests and one that is     *)
(* rejected.                                                               *)
QueueBodies ==
    { MakeBody(Cents(5000), Undefined, Undefined, Undefined),
      MakeBody(Cents(15000), Bool(FALSE), Undefined, Undefined),
      MakeBody(Cents(-100), Undefined, Undefined, Undefined) }

NextQueue ==
    \E r \in Reqs :
        \/ Receive(r, QueueBodies)
        \/ Wake(r)
        \/ \E o \in Outcomes : Settle(r, o)

FairSpec == Init /\ [][NextQueue]_vars /\ Fairness

(* One request at a time, over the whole product of field values *)
NextPolicy ==
    \/ Receive(1, PolicyBodies)
    \/ \E o \in Outcomes : Settle(1, o)

PolicySpec == Init /\ [][NextPolicy]_vars

---------------------------------------------------------------------------
(* Properties *)

(* C1: at every instant, no two requests are inside a remote price-update  *)
(* call that targets the same variant (the id in the PUT's URL).           *)
MutualExclusionPerVariant ==
    \A r1, r2 \in Reqs :
        (r1 # r2 /\ pc[r1] = "calling" /\ pc[r2] = "calling")
            => inflight[r1].variant # inflight[r2].variant

(* C2: when a request's remote call finishes, however it finishes, its key *)
(* is out of the Map by the time its response (200 or 500) exists; and a   *)
(* request that has been answered holds no key: every key in the Map       *)
(* belongs to a request that is still inside its call.                     *)
LockReleasedOnEveryOutcome ==
    /\ [](\A k \in locks : \E r \in Reqs : pc[r] = "calling" /\ call[r].key = k)
    /\ [][\A r \in Reqs :
            (pc[r] = "calling" /\ resp'[r] # NoResp)
                => /\ ~Busy(locks', call[r].key)
                   /\ resp'[r].status \in {200, 500}]_vars

(* C2 witness: a call that returned a variant and a call that failed have  *)
(* both been answered, and the Map is empty.                               *)
ReleasedAfterSuccessAndFailure ==
    /\ locks = {}
    /\ \E r1, r2 \in Reqs :
          /\ pc[r1] = "done" /\ sent[r1] = 1 /\ resp[r1].status = 200
          /\ pc[r2] = "done" /\ sent[r2] = 1 /\ resp[r2].status = 500

(* C3 as stated: a request is in the polling wait only while its own key   *)
(* is in the Map.                                                          *)
WaitingOnlyWhileOwnKeyBusy ==
    \A r \in Reqs : pc[r] = "waiting" => Busy(locks, call[r].key)

(* C3, amended: an arriving request goes to sleep only if the loop test    *)
(* finds its own key in the Map, and if its own key is free it starts its  *)
(* remote call in the same step, whatever other keys are held; a sleeping  *)
(* request leaves the sleep only into its call.                            *)
OnlyOwnKeyDelays ==
    [][\A r \in Reqs :
          /\ (pc[r] = "idle" /\ pc'[r] = "waiting") => call'[r].key \in locks
          /\ (pc[r] = "idle" /\ pc'[r] # "idle" /\ resp'[r] = NoResp
                /\ call'[r].key \notin locks)
                => (pc'[r] = "calling" /\ sent'[r] = 1)
          /\ (pc[r] = "waiting" /\ pc'[r] # "waiting")
                => (pc'[r] = "calling" /\ call[r].key \notin locks)]_vars

(* C3 witness: a request starts its call on arrival while another key is   *)
(* held by a request still inside its call.                                *)
CallsOnDifferentKeysOverlap ==
    \E r1, r2 \in Reqs :
        /\ r1 < r2
        /\ pc[r1] = "calling" /\ pc[r2] = "calling"
        /\ inflight[r1].variant # inflight[r2].variant

(* How the properties below read a request body: by the JSON it carried,  *)
(* not by the handler's tests.                                             *)
IsAmount(v) == v.t = "number" /\ v.s = ""
IsResetRequest(b) == b.reset = Bool(TRUE)
IsCalcRequest(b) == b.reset \in {Undefined, Bool(FALSE)}
Answered(r) == pc[r] = "done"
Arrived(r) == pc[r] # "idle"

(* C4: a reset request whose new_price is missing, not a number, zero or   *)
(* negative, and a non-reset request whose subtotal is missing, not a      *)
(* number or negative, is answered 400 {success:false, error} and never    *)
(* issues a PUT.                                                           *)
InvalidInputAnswered400 ==
    \A r \in Reqs :
        (/\ Arrived(r)
         /\ \/ /\ IsResetRequest(body[r])
               /\ \/ body[r].new_price.t # "number"
                  \/ IsAmount(body[r].new_price) /\ body[r].new_price.n <= 0
            \/ /\ IsCalcRequest(body[r])
               /\ \/ body[r].subtotal.t # "number"
                  \/ IsAmount(body[r].subtotal) /\ body[r].subtotal.n < 0)
        => /\ Answered(r)
           /\ resp[r].status = 400 /\ ~resp[r].success /\ resp[r].error.text # ""
           /\ sent[r] = 0 /\ inflight[r] = NoPut /\ reply[r] = NoReply

(* C4 witness: a non-reset request with a negative subtotal has been       *)
(* answered 400.                                                           *)
NegativeSubtotalAnswered400 ==
    \E r \in Reqs :
        /\ Answered(r) /\ IsCalcRequest(body[r])
        /\ body[r].subtotal = Cents(-100)
        /\ resp[r].status = 400 /\ sent[r] = 0

(* C5: a reset request whose new_price is a number that is not finite, and *)
(* a non-reset request whose subtotal is a number that is not finite, is   *)
(* answered 400 and issues no PUT.                                         *)
NonFiniteInputAnswered400 ==
    \A r \in Reqs :
        (/\ Arrived(r)
         /\ \/ IsResetRequest(body[r]) /\ body[r].new_price = Huge
            \/ IsCalcRequest(body[r]) /\ body[r].subtotal = Huge)
        => (resp[r].status = 400 /\ sent[r] = 0)

(* C6: a non-reset request with 0 <= subtotal < 100 sends the price 2.17,  *)
(* whatever the subtotal.                                                  *)
BelowThresholdSends217 ==
    \A r \in Reqs :
        (/\ Arrived(r) /\ body[r].reset # Bool(TRUE)
         /\ IsAmount(body[r].subtotal)
         /\ body[r].subtotal.n >= 0 /\ body[r].subtotal.n < 10000)
        => /\ sent[r] = 1
           /\ call[r].price = DFromCents(217)
           /\ pc[r] = "calling" => inflight[r].price = FixedStr("dec", FALSE, 217)

(* C6 witness: the PUT of a request with subtotal 99.99 is in flight *)
Subtotal9999InFlight ==
    \E r \in Reqs :
        /\ pc[r] = "calling" /\ body[r].reset # Bool(TRUE)
        /\ body[r].subtotal = Cents(9999)
        /\ inflight[r].price = FixedStr("dec", FALSE, 217)

(* C7: a non-reset request with subtotal s >= 100, s given in cents c,     *)
(* sends 0.03*s + 0.01 rounded half-up to cents: (3c + 100)/100 cents      *)
(* rounded half-up, i.e. (3c + 150) \div 100.                              *)
AboveThresholdSendsHalfUp ==
    \A r \in Reqs :
        (/\ pc[r] = "calling" /\ body[r].reset # Bool(TRUE)
         /\ IsAmount(body[r].subtotal) /\ body[r].subtotal.n >= 10000)
        => inflight[r].price =
              FixedStr("dec", FALSE, (3 * body[r].subtotal.n + 150) \div 100)

(* C8: a reset request with a valid new_price p sends p, whatever the      *)
(* subtotal field holds.                                                   *)
ResetSendsNewPrice ==
    \A r \in Reqs :
        (/\ Arrived(r) /\ IsResetRequest(body[r])
         /\ IsAmount(body[r].new_price) /\ body[r].new_price.n > 0)
        => /\ sent[r] = 1
           /\ call[r].price = DFromCents(body[r].new_price.n)
           /\ pc[r] = "calling" =>
                 inflight[r].price = FixedStr("dec", FALSE, body[r].new_price.n)

(* C8 witness: a reset to 9.99 is in flight for a request whose subtotal   *)
(* is negative.                                                            *)
ResetInFlightWithBadSubtotal ==
    \E r \in Reqs :
        /\ pc[r] = "calling" /\ IsResetRequest(body[r])
        /\ body[r].subtotal = Cents(-100)
        /\ body[r].new_price = Cents(999)
        /\ inflight[r].price = FixedStr("dec", FALSE, 999)

(* C9 as stated: in both modes the variant locked and written is the       *)
(* request's variant_id when one is supplied, the configured one otherwise *)
SuppliedVariantUsedInBothModes ==
    \A r \in Reqs :
        pc[r] = "calling" =>
            \E want \in {IF body[r].variant_id # Undefined
                         THEN body[r].variant_id ELSE Str("45626932789401")} :
                /\ call[r].key = want /\ want \in locks
                /\ inflight[r].variant = ToString(want)

(* C9, amended: in reset mode the variant locked and written is the        *)
(* request's variant_id when one is supplied and is not the empty string,  *)
(* the configured one otherwise; in calculation mode it is always the      *)
(* configured one.                                                         *)
SuppliedVariantUsedInResetMode ==
    \A r \in Reqs :
        pc[r] = "calling" =>
            \E want \in {IF /\ IsResetRequest(body[r])
                            /\ body[r].variant_id \notin {Undefined, Str("")}
                         THEN body[r].variant_id ELSE Str("45626932789401")} :
                /\ call[r].key = want /\ want \in locks
                /\ inflight[r].variant = ToString(want)

(* C9 witness: a reset of another variant is in flight *)
ResetOfOtherVariantInFlight ==
    \E r \in Reqs :
        /\ pc[r] = "calling" /\ IsResetRequest(body[r])
        /\ body[r].variant_id = Str(OTHER_VARIANT)
        /\ inflight[r].variant = OTHER_VARIANT
        /\ Str(OTHER_VARIANT) \in locks

(* C10: a request whose PUT the remote answered with a non-success status, *)
(* or whose remote call threw, is answered 500 {success:false, error}; for *)
(* a non-success status the error carries that status.                     *)
RemoteFailureAnswered500 ==
    \A r \in Reqs :
        reply[r].o \in {"status", "throw"}
        => /\ Answered(r)
           /\ resp[r].status = 500 /\ ~resp[r].success /\ resp[r].error.text # ""
           /\ reply[r].o = "status" => resp[r].error.status = reply[r].status

(* C10 witness: the remote answered 422 and the request was answered 500 *)
Remote422Answered500 ==
    \E r \in Reqs :
        /\ reply[r] = [o |-> "status", status |-> 422]
        /\ resp[r].status = 500 /\ resp[r].error.status = 422

(* C11: a request that passes validation takes exactly one of the three   *)
(* paths, the one its body selects, and enters its remote call exactly     *)
(* once: never twice, and not again after the call has failed.             *)
ExactlyOneCallPerRequest ==
    \A r \in Reqs :
        /\ sent[r] <= 1
        /\ (sent[r] = 1) = (pc[r] = "calling" \/ (Answered(r) /\ resp[r].status # 400))
        /\ reply[r].o \in {"status", "throw"} => (Answered(r) /\ sent[r] = 1)
        /\ (Arrived(r) /\ resp[r].status # 400) =>
              call[r].path =
                 IF IsResetRequest(body[r]) THEN "reset"
                 ELSE IF IsAmount(body[r].subtotal) /\ body[r].subtotal.n < 10000
                      THEN "fixed" ELSE "dynamic"

(* C11 witness: a request whose remote call failed has been answered, with *)
(* one call made, while another request has a call in flight.              *)
FailedCallNotRetried ==
    \E r1, r2 \in Reqs :
        /\ Answered(r1) /\ reply[r1].o = "status" /\ sent[r1] = 1
        /\ call[r1].path = "dynamic"
        /\ pc[r2] = "calling" /\ sent[r2] = 1

(* C12: the step in which a request is answered with a failure            *)
(* (success:false, 400 or 500) leaves the remote's stored prices as they   *)
(* were: no failure answer follows that request's write taking effect.     *)
FailureLeavesRemoteUnchanged ==
    [][\A r \in Reqs :
          (resp[r] = NoResp /\ resp'[r] # NoResp /\ ~resp'[r].success)
              => remote' = remote]_vars

(* C13: for each variant, once every request that targets it has been     *)
(* answered, the remote's stored price is the one sent by the latest       *)
(* lock-holder that was answered 200 (if any request was).                 *)
LastSuccessfulHolderWins ==
    \A v \in VariantIds :
        (/\ \A r \in Reqs : pc[r] \in {"waiting", "calling"} => ToString(call[r].key) # v
         /\ lastSuccess[v] # NoPrice)
        => remote[v] = lastSuccess[v]

(* C14: acquisition is not first-come-first-served.  Whenever a request   *)
(* arrives for a key that is free, it takes the key and starts its call in *)
(* that step, even if an earlier request is asleep in the polling wait for *)
(* the same key; the sleeper stays asleep.                                 *)
ArrivalOvertakesSleeper ==
    [][\A b, c \in Reqs :
          (/\ pc[b] = "waiting" /\ call[b].key \notin locks
           /\ pc[c] = "idle" /\ pc'[c] # "idle" /\ resp'[c] = NoResp
           /\ call'[c].key = call[b].key)
          => (pc'[c] = "calling" /\ sent'[c] = 1 /\ pc'[b] = "waiting")]_vars

(* C14 witness: B arrived before C and has been waiting since; C has held  *)
(* B's key, written the variant and been answered 200, and B has yet to    *)
(* start its call.                                                         *)
LaterArrivalWroteFirst ==
    \E b, c \in Reqs :
        /\ b < c
        /\ pc[b] = "waiting" /\ sent[b] = 0
        /\ call[c].key = call[b].key
        /\ Answered(c) /\ resp[c].status = 200
        /\ remote[ToString(call[c].key)] = resp[c].new_price

(* C15: while the call of the request holding the lock for a variant has  *)
(* not completed, the holder's key stays in the Map and no other request   *)
(* that targets the variant, arriving or already polling, starts its call  *)
(* or is answered: each stays in the polling wait.  (With a holder whose   *)
(* call never completes, that is forever.)                                 *)
HungCallBlocksVariant ==
    [][\A h, w \in Reqs :
          (/\ pc[h] = "calling" /\ pc'[h] = "calling"
           /\ pc[w] \in {"idle", "waiting"}
           /\ call'[w].kind = "call"
           /\ ToString(call'[w].key) = inflight[h].variant)
          => /\ call[h].key \in locks'
             /\ pc'[w] = "waiting" /\ sent'[w] = 0 /\ resp'[w] = NoResp]_vars

(* C16: with timers that fire and remote calls that complete, every       *)
(* request that arrives is eventually answered (200, 400 or 500), its      *)
(* answer never changes afterwards, and from some point on the Map is      *)
(* empty and no request is polling or inside a call.                       *)
EveryRequestAnswered ==
    /\ \A r \in Reqs : Arrived(r) ~> (Answered(r) /\ resp[r].status \in {200, 400, 500})
    /\ [][\A r \in Reqs : resp[r] # NoResp => resp'[r] = resp[r]]_vars
    /\ <>[](locks = {} /\ \A r \in Reqs : pc[r] \in {"idle", "done"})

(* C16 witness: every request has arrived and been answered, two of them   *)
(* after a call under the same key, and the Map is empty.                  *)
AllAnsweredAndMapEmpty ==
    /\ locks = {}
    /\ \A r \in Reqs : Answered(r)
    /\ \E r1, r2 \in Reqs :
          /\ r1 # r2 /\ call[r1].key = call[r2].key
          /\ sent[r1] = 1 /\ sent[r2] = 1

(* C17: the Map holds exactly the keys of the requests that are inside    *)
(* their remote call, one request per key (so it is empty when no call is  *)
(* in flight); a key enters the Map only in the step in which a request    *)
(* starts its call under it, and leaves it only in the step in which the   *)
(* request that holds it finishes its call.                                *)
MapHoldsKeysOfCallsInFlight ==
    /\ [](/\ locks = {call[r].key : r \in {q \in Reqs : pc[q] = "calling"}}
          /\ Cardinality(locks) = Cardinality({q \in Reqs : pc[q] = "calling"}))
    /\ [][\A k \in locks \cup locks' :
            /\ (k \notin locks /\ k \in locks') =>
                  \E r \in Reqs : pc[r] # "calling" /\ pc'[r] = "calling" /\ call'[r].key = k
            /\ (k \in locks /\ k \notin locks') =>
                  \E r \in Reqs : pc[r] = "calling" /\ pc'[r] = "done" /\ call[r].key = k]_vars

(* C17 witness: two calls are in flight under two keys while a third       *)
(* request polls for one of them.                                          *)
TwoKeysHeldOnePolling ==
    \E r1, r2, r3 \in Reqs :
        /\ pc[r1] = "calling" /\ pc[r2] = "calling" /\ pc[r3] = "waiting"
        /\ call[r1].key # call[r2].key /\ call[r3].key = call[r1].key
        /\ locks = {call[r1].key, call[r2].key}

(* C18: the step that answers a request 200 puts in the response the id   *)
(* of the variant the PUT addressed and the price the remote holds for it  *)
(* after the step, which need not be the price string that was sent.       *)
SuccessCarriesRemoteVariant ==
    [][\A r \in Reqs :
          (resp[r] = NoResp /\ resp'[r].status = 200)
          => /\ resp'[r].success
             /\ resp'[r].variant_id = inflight[r].variant
             /\ resp'[r].new_price = remote'[inflight[r].variant]
             /\ reply'[r].o = "ok" => resp'[r].new_price = inflight[r].price]_vars

(* C18 witness: a request was answered 200 with the remote's rendering of  *)
(* the price, which is not the string the request sent.                    *)
AnsweredWithCanonicalPrice ==
    \E r \in Reqs :
        /\ Answered(r) /\ resp[r].status = 200
        /\ reply[r].o = "okCanonical"
        /\ resp[r].new_price = remote[resp[r].variant_id]
        /\ resp[r].new_price # ToFixed2(call[r].price)

(* C19: a request is answered 400 in the step in which it arrives,       *)
(* whether or not the default variant's key is held, and that step leaves  *)
(* the Map, the PUTs in flight and the remote's prices as they were and    *)
(* issues no PUT.                                                          *)
RejectionLeavesLocksAndRemote ==
    [][\A r \in Reqs :
          (resp[r] = NoResp /\ resp'[r].status = 400)
          => /\ pc[r] = "idle" /\ pc'[r] = "done"
             /\ locks' = locks /\ remote' = remote
             /\ inflight' = inflight /\ sent' = sent
             /\ \A q \in Reqs : q # r => pc'[q] = pc[q]]_vars

(* C19 witness: a request was answered 400 after another had taken the     *)
(* default variant's key, which is still held.                             *)
RejectedWhileDefaultKeyHeld ==
    \E h, r \in Reqs :
        /\ h < r
        /\ pc[h] = "calling" /\ call[h].key = PROTECTION_VARIANT_DYNAMIC
        /\ PROTECTION_VARIANT_DYNAMIC \in locks
        /\ Answered(r) /\ resp[r].status = 400 /\ sent[r] = 0

=============================================================================
